---- MODULE Spec2Model ----
(***************************************************************************)
(* State-machine model of iracing_udp_bridge.py: the run() loop (provider  *)
(* readiness, sample derivation, UDP dispatch to every destination, CSV    *)
(* row, sequence increment, sleep), Dest.resolve with its address cache,   *)
(* the safe telemetry readers, and the teardown in the finally block.      *)
(***************************************************************************)
EXTENDS Integers, Sequences, FiniteSets, TLC

VARIABLES
    pc,          \* position of run(): "setup", "loop", "dispatch", "csv", "finish",
                 \* "shutdown", "close_sock", "close_file", "done"
    live_only,   \* run()'s parameter (-l): TRUE disables the CSV log
    ready,       \* ir.is_initialized
    seq,         \* run()'s local seq
    now,         \* time.time(), in seconds
    dests,       \* run()'s parameter: the list of Dest objects
    dns,         \* environment: what socket.gethostbyname(host) answers now
    di,          \* index (1-based) of the destination the for loop is at
    ir,          \* the provider's data as the tick's reads found it
    sample,      \* the values derived by the current tick (payload and CSV row)
    outbox,      \* per destination, what the current tick did with it: pending,
                 \* skipped, sent (the datagram handed to sock.sendto) or failed
    row,         \* the CSV row written by the current tick, if any
    f,           \* the log file: None, "open" or "closed"
    sock,        \* the UDP socket: "open" or "closed"
    exc,         \* the exception that left the loop, or None
    calls,       \* how often each teardown call was made
    looked,      \* per destination: did its last resolve() call gethostbyname?
    last_iter,   \* what the last loop iteration was: "none", "waiting", "running"
    completed    \* the sequence numbers in the payloads of the completed ticks

vars == <<pc, live_only, ready, seq, now, dests, dns, di, ir, sample, outbox,
          row, f, sock, exc, calls, looked, last_iter, completed>>

None == "None"

(* ------------------------------ bounds --------------------------------- *)

\* ticks the model lets the loop complete
MaxSeq == 2
\* seconds the model lets the clock advance past its start
MaxElapsed == 6

(* ----------------------- program constants ----------------------------- *)

ESP32_PORT == 5005
\* d.resolve(interval_s=5.0)
interval_s == 5

StartTime == interval_s + 1
MaxTime == StartTime + MaxElapsed

(* --------------------------- Dest -------------------------------------- *)

Dest(host, port) ==
    [host |-> host, port |-> port, resolved_ip |-> None, last_resolve |-> 0]

\* the addresses the environment may map each configured host to
Addrs(host) ==
    IF host = "esp32.local" THEN {"10.0.0.60", "10.0.0.61"} ELSE {"10.0.0.70"}

\* faulty variant of stale: the cache expires one comparison early (>=)
stale_at_interval(self, interval, t) ==
    self.resolved_ip = None \/ (t - self.last_resolve) >= interval

\* faulty variant of stale: an empty cache is never filled again
stale_only_when_cached(self, interval, t) ==
    self.resolved_ip # None /\ (t - self.last_resolve) > interval

\* faulty variant of stale: a cached address is never looked up again
stale_only_when_empty(self, interval, t) == self.resolved_ip = None

\* the condition of Dest.resolve's if
stale(self, interval, t) ==
    self.resolved_ip = None \/ (t - self.last_resolve) > interval

\* faulty variant of resolve: a failed lookup leaves the cached address
resolve_keeps_cache_on_failure(self, interval, t, answer) ==
    LET fresh == stale(self, interval, t)
        after == IF fresh
                 THEN IF answer = None
                      THEN [self EXCEPT !.last_resolve = t]
                      ELSE [self EXCEPT !.resolved_ip = answer,
                                        !.last_resolve = t]
                 ELSE self
    IN  [self   |-> after,
         called |-> fresh,
         ret    |-> IF after.resolved_ip = None
                    THEN [none |-> TRUE]
                    ELSE [none |-> FALSE, ip |-> after.resolved_ip,
                          port |-> after.port]]

\* Dest.resolve(interval_s) at time t, when gethostbyname(self.host) answers
\* `answer` (None: it raises). self: the object afterwards; called: whether
\* gethostbyname was called; ret: the returned pair or None.
resolve(self, interval, t, answer) ==
    LET fresh == stale(self, interval, t)
        after == IF fresh
                 THEN [self EXCEPT !.resolved_ip = answer, !.last_resolve = t]
                 ELSE self
    IN  [self   |-> after,
         called |-> fresh,
         ret    |-> IF after.resolved_ip = None
                    THEN [none |-> TRUE]
                    ELSE [none |-> FALSE, ip |-> after.resolved_ip,
                          port |-> after.port]]

(* ----------------------- telemetry readers ----------------------------- *)

\* what ir[key] may do: raise, or return a number or a list
Raise == [t |-> "raise"]
Num(n) == [t |-> "num", n |-> n]
List(s) == [t |-> "list", s |-> s]

\* faulty variant of ir_get: no try/except, the lookup's exception gets through
ir_get_unguarded(p, key, default) == p[key]

\* a reader's result: a value, or the exception it let through
ir_get(p, key, default) ==
    IF p[key].t = "raise" THEN default ELSE p[key]

ir_get_idx(p, key, idx, default) ==
    IF p[key].t = "raise" THEN default
    ELSE IF p[key].t = "list" /\ 0 <= idx /\ idx < Len(p[key].s)
         THEN Num(p[key].s[idx + 1])
         ELSE default

\* int(x) / float(x) of a reader's result raise unless x is a number
IsNumber(x) == x.t = "num"

\* Python's None, as a default handed to a reader
NoneV == [t |-> "none"]

\* Fractions (Throttle, Brake, FuelLevelPct, steer_norm) are counted in units
\* of 0.00001, so that 1.0 is One; times in milliseconds, FuelLevel in
\* millilitres, Speed in mm/s, speed_kmh in 0.0001 km/h.
One == 100000

Min(a, b) == IF a < b THEN a ELSE b
Max(a, b) == IF a > b THEN a ELSE b

\* faulty variant of norm_pct: the 0..100 case is not scaled down
norm_pct_unscaled(x) ==
    IF ~IsNumber(x) THEN 0 ELSE Max(0, Min(One, x.n))

\* norm_pct(x): 0.0 when float(x) raises, x / 100.0 when x > 1.5, clamped
norm_pct(x) ==
    IF ~IsNumber(x)
    THEN 0
    ELSE LET v == IF x.n > (3 * One) \div 2 THEN x.n \div 100 ELSE x.n
         IN  Max(0, Min(One, v))

\* faulty variant of get_session_time_remain: total - cur without max(0.0, ...)
get_session_time_remain_unclamped(p) ==
    LET remain == ir_get(p, "SessionTimeRemain", NoneV)
        total == ir_get(p, "SessionTimeTotal", Num(0))
        cur == ir_get(p, "SessionTime", Num(0))
    IN  IF IsNumber(remain) /\ remain.n > 0
        THEN remain
        ELSE IF ~(IsNumber(total) /\ IsNumber(cur))
             THEN Raise
             ELSE IF total.n > 0 /\ cur.n >= 0
                  THEN Num(total.n - cur.n)
                  ELSE Num(0)

\* get_session_time_remain(ir): a number, or Raise when float() of the total
\* or of the current time raises
get_session_time_remain(p) ==
    LET remain == ir_get(p, "SessionTimeRemain", NoneV)
        total == ir_get(p, "SessionTimeTotal", Num(0))
        cur == ir_get(p, "SessionTime", Num(0))
    IN  IF IsNumber(remain) /\ remain.n > 0
        THEN remain
        ELSE IF ~(IsNumber(total) /\ IsNumber(cur))
             THEN Raise
             ELSE IF total.n > 0 /\ cur.n >= 0
                  THEN Num(Max(0, total.n - cur.n))
                  ELSE Num(0)

\* get_incidents(ir): the first of the three keys that int() accepts, else 0
get_incidents(p) ==
    LET my == ir_get(p, "PlayerCarMyIncidentCount", NoneV)
        team == ir_get(p, "PlayerCarTeamIncidentCount", NoneV)
        car == ir_get(p, "PlayerCarIncidentCount", NoneV)
    IN  IF IsNumber(my) THEN my.n
        ELSE IF IsNumber(team) THEN team.n
        ELSE IF IsNumber(car) THEN car.n
        ELSE 0

\* `if player_idx >= 0: if <trigger>: v = ir_get_idx(ir, key, player_idx, v)`:
\* the value afterwards and the per-car arrays that were read
Fallback(p, trigger, key, idx, v) ==
    IF idx >= 0 /\ trigger
    THEN [v |-> ir_get_idx(p, key, idx, Num(v)), reads |-> {key}]
    ELSE [v |-> Num(v), reads |-> {}]

\* faulty variant of LapFallback: the per-car array is consulted regardless
LapFallbackAlways(p, key, idx, v) == Fallback(p, TRUE, key, idx, v)

\* lines 199-205: lap, pos and class_pos fall back when they are 0
LapFallback(p, key, idx, v) == Fallback(p, v = 0, key, idx, v)

\* faulty variant of LapTimeFallback: only a negative lap time falls back
LapTimeFallbackNegative(p, key, idx, v) == Fallback(p, v < 0, key, idx, v)

\* lines 213-217: lap_last and lap_best fall back when they are <= 0.0
LapTimeFallback(p, key, idx, v) == Fallback(p, v <= 0, key, idx, v)

ScalarKeys ==
    {"IsReplayPlaying", "PlayerCarIdx", "RPM", "Gear", "Throttle", "Brake",
     "SteeringWheelAngle", "SteeringWheelAngleMax", "SessionTimeRemain",
     "SessionTimeTotal", "SessionTime", "PlayerCarMyIncidentCount",
     "PlayerCarTeamIncidentCount", "PlayerCarIncidentCount", "FuelLevel",
     "FuelLevelPct", "Speed", "Lap", "PlayerCarPosition",
     "PlayerCarClassPosition", "LapCurrentLapTime", "LapLastLapTime",
     "LapBestLapTime"}

ArrayKeys ==
    {"CarIdxLap", "CarIdxPosition", "CarIdxClassPosition",
     "CarIdxLastLapTime", "CarIdxBestLapTime"}

Keys == ScalarKeys \cup ArrayKeys

\* a provider with every key present: a car in its fifth lap, second overall
Typical ==
    [k \in Keys |->
        CASE k = "IsReplayPlaying" -> Num(0)
          [] k = "PlayerCarIdx" -> Num(0)
          [] k = "RPM" -> Num(7200)
          [] k = "Gear" -> Num(3)
          [] k = "Throttle" -> Num(55000)
          [] k = "Brake" -> Num(0)
          [] k = "SteeringWheelAngle" -> Num(100)
          [] k = "SteeringWheelAngleMax" -> Num(400)
          [] k = "SessionTimeRemain" -> Num(1200000)
          [] k = "SessionTimeTotal" -> Num(3600000)
          [] k = "SessionTime" -> Num(2400000)
          [] k = "PlayerCarMyIncidentCount" -> Num(4)
          [] k = "PlayerCarTeamIncidentCount" -> Num(6)
          [] k = "PlayerCarIncidentCount" -> Num(8)
          [] k = "FuelLevel" -> Num(42125)
          [] k = "FuelLevelPct" -> Num(55000)
          [] k = "Speed" -> Num(41670)
          [] k = "Lap" -> Num(5)
          [] k = "PlayerCarPosition" -> Num(2)
          [] k = "PlayerCarClassPosition" -> Num(1)
          [] k = "LapCurrentLapTime" -> Num(65432)
          [] k = "LapLastLapTime" -> Num(64000)
          [] k = "LapBestLapTime" -> Num(63500)
          [] k = "CarIdxLap" -> List(<<5, 3>>)
          [] k = "CarIdxPosition" -> List(<<2, 7>>)
          [] k = "CarIdxClassPosition" -> List(<<1, 4>>)
          [] k = "CarIdxLastLapTime" -> List(<<64000, 66000>>)
          [] OTHER -> List(<<63500, 65000>>)]

Provider(rpm, idx, lap, laps) ==
    [Typical EXCEPT !["RPM"] = rpm, !["PlayerCarIdx"] = idx, !["Lap"] = lap,
                    !["CarIdxLap"] = laps]

NoProvider == [k \in Keys |-> Raise]

\* the provider states a tick may find: every key present; a scalar key
\* absent; the per-car array consulted, in range and out of range; the
\* per-car array absent; nothing readable
ProviderStates ==
    { Provider(Num(7200), Num(0), Num(5), List(<<4>>)),
      Provider(Raise, Num(0), Num(5), List(<<4>>)),
      Provider(Num(7200), Raise, Raise, List(<<4>>)),
      Provider(Num(7200), Num(1), Raise, List(<<4>>)),
      Provider(Num(7200), Num(0), Num(0), Raise),
      NoProvider }

\* lines 169-217: the values derived (ok), or not ok when an int()/float()
\* conversion of a reader's result raises. reads: the per-car arrays read.
Derived(p, s) ==
    LET is_replay == ir_get(p, "IsReplayPlaying", Num(0))
        idx_r == ir_get(p, "PlayerCarIdx", Num(0))
        rpm_r == ir_get(p, "RPM", Num(0))
        gear_r == ir_get(p, "Gear", Num(0))
        thr_r == ir_get(p, "Throttle", Num(0))
        brk_r == ir_get(p, "Brake", Num(0))
        ang_r == ir_get(p, "SteeringWheelAngle", Num(0))
        max_r == ir_get(p, "SteeringWheelAngleMax", Num(0))
        remain == get_session_time_remain(p)
        fuel_r == ir_get(p, "FuelLevel", Num(0))
        spd_r == ir_get(p, "Speed", Num(0))
        lap_r == ir_get(p, "Lap", Num(0))
        pos_r == ir_get(p, "PlayerCarPosition", Num(0))
        cls_r == ir_get(p, "PlayerCarClassPosition", Num(0))
        cur_r == ir_get(p, "LapCurrentLapTime", Num(0))
        last_r == ir_get(p, "LapLastLapTime", Num(0))
        best_r == ir_get(p, "LapBestLapTime", Num(0))
    IN  IF ~(/\ IsNumber(is_replay) /\ IsNumber(idx_r) /\ IsNumber(rpm_r)
             /\ IsNumber(gear_r) /\ IsNumber(thr_r) /\ IsNumber(brk_r)
             /\ IsNumber(ang_r) /\ IsNumber(max_r) /\ IsNumber(remain)
             /\ IsNumber(fuel_r) /\ IsNumber(spd_r) /\ IsNumber(lap_r)
             /\ IsNumber(pos_r) /\ IsNumber(cls_r) /\ IsNumber(cur_r)
             /\ IsNumber(last_r) /\ IsNumber(best_r))
        THEN [ok |-> FALSE]
        ELSE LET player_idx == idx_r.n
                 lap_f == LapFallback(p, "CarIdxLap", player_idx, lap_r.n)
                 pos_f == LapFallback(p, "CarIdxPosition", player_idx, pos_r.n)
                 cls_f == LapFallback(p, "CarIdxClassPosition", player_idx,
                                      cls_r.n)
                 last_f == LapTimeFallback(p, "CarIdxLastLapTime", player_idx,
                                           last_r.n)
                 best_f == LapTimeFallback(p, "CarIdxBestLapTime", player_idx,
                                           best_r.n)
             IN  IF ~(/\ IsNumber(lap_f.v) /\ IsNumber(pos_f.v)
                      /\ IsNumber(cls_f.v) /\ IsNumber(last_f.v)
                      /\ IsNumber(best_f.v))
                 THEN [ok |-> FALSE]
                 ELSE [ok |-> TRUE,
                       seq |-> s,
                       rpm |-> rpm_r.n,
                       gear |-> gear_r.n,
                       throttle |-> thr_r.n,
                       brake |-> brk_r.n,
                       steer_norm |-> IF max_r.n # 0
                                      THEN (ang_r.n * One) \div max_r.n
                                      ELSE 0,
                       session_remain_s |-> remain.n,
                       fuel_l |-> fuel_r.n,
                       fuel_pct |-> norm_pct(ir_get(p, "FuelLevelPct", Num(0))),
                       incidents |-> get_incidents(p),
                       speed_kmh |-> spd_r.n * 36,
                       lap |-> lap_f.v.n,
                       pos |-> pos_f.v.n,
                       class_pos |-> cls_f.v.n,
                       lap_cur |-> cur_r.n,
                       lap_last |-> last_f.v.n,
                       lap_best |-> best_f.v.n,
                       is_replay |-> is_replay.n,
                       reads |-> lap_f.reads \cup pos_f.reads \cup cls_f.reads
                                 \cup last_f.reads \cup best_f.reads]

\* a value printed with a fixed number of decimals: n to the nearest multiple
\* of step, a tie going to the even one
RoundTo(n, step) ==
    LET q == n \div step
        r == n % step
    IN  IF 2 * r < step THEN q * step
        ELSE IF 2 * r > step THEN (q + 1) * step
        ELSE IF q % 2 = 0 THEN q * step ELSE (q + 1) * step

\* lines 221-228: the 15 values of the datagram, as many decimals as the
\* format keeps (thr and brk .3f, session_remain_s and speed_kmh .2f; rpm,
\* fuel_l and the lap times are whole in their units of 1, 0.001 and 0.001)
Payload(s) ==
    [seq |-> s.seq,
     rpm |-> s.rpm,
     gear |-> s.gear,
     thr |-> RoundTo(s.throttle, One \div 1000),
     brk |-> RoundTo(s.brake, One \div 1000),
     session_remain_s |-> RoundTo(s.session_remain_s, 10),
     fuel_l |-> s.fuel_l,
     incidents |-> s.incidents,
     speed_kmh |-> RoundTo(s.speed_kmh, 100),
     lap |-> s.lap,
     pos |-> s.pos,
     class_pos |-> s.class_pos,
     lap_cur |-> s.lap_cur,
     lap_last |-> s.lap_last,
     lap_best |-> s.lap_best]

\* lines 239-259: the CSV row written when seq is n, its ts_unix column
\* left out
Row(s, n) ==
    [ok |-> TRUE,
     seq |-> n,
     rpm |-> s.rpm,
     gear |-> s.gear,
     throttle |-> s.throttle,
     brake |-> s.brake,
     steer_norm |-> s.steer_norm,
     session_remain_s |-> s.session_remain_s,
     fuel_l |-> s.fuel_l,
     fuel_pct |-> s.fuel_pct,
     speed_kmh |-> s.speed_kmh,
     incidents |-> s.incidents,
     lap |-> s.lap,
     pos |-> s.pos,
     class_pos |-> s.class_pos,
     lap_cur |-> s.lap_cur,
     lap_last |-> s.lap_last,
     lap_best |-> s.lap_best,
     is_replay |-> s.is_replay]

(* ------------------------------ Init ----------------------------------- *)

DestHosts == <<"esp32.local", "pi.local">>
DestIdx == 1 .. Len(DestHosts)
HostSet == {DestHosts[i] : i \in DestIdx}

\* what gethostbyname may answer for every host (None: it raises)
DnsStates ==
    {m \in [HostSet -> {None, "10.0.0.60", "10.0.0.61", "10.0.0.70"}] :
        \A h \in HostSet : m[h] \in Addrs(h) \cup {None}}

NoSample == [ok |-> FALSE]
Pending == [st |-> "pending"]
Skipped == [st |-> "skipped"]
Failed(addr, payload) == [st |-> "failed", to |-> addr, payload |-> payload]
Sent(addr, payload) == [st |-> "sent", to |-> addr, payload |-> payload]

LoopPcs == {"setup", "loop", "dispatch", "csv", "finish"}

\* the state when run() enters its try block (lines 122-132)
Init ==
    /\ pc = "setup"
    /\ live_only \in BOOLEAN
    /\ ready \in BOOLEAN
    /\ seq = 0
    /\ now = StartTime
    /\ dests = [i \in DestIdx |-> Dest(DestHosts[i], ESP32_PORT)]
    /\ dns \in DnsStates
    /\ di = 1
    /\ ir = NoProvider
    /\ sample = NoSample
    /\ outbox = [i \in DestIdx |-> Pending]
    /\ row = NoSample
    /\ f = None
    /\ sock = "open"
    /\ exc = None
    /\ calls = [shutdown |-> 0, sock_close |-> 0, f_close |-> 0]
    /\ looked = [i \in DestIdx |-> FALSE]
    /\ last_iter = "none"
    /\ completed = <<>>

(* ------------------------- run(): the try block ------------------------ *)

\* the amounts a sleep may move the clock on by: less than a second, exactly
\* the resolver's interval, and more than it
TimeSteps == {0, interval_s, interval_s + 1}

\* time.sleep(): the clock moves on
Sleep ==
    \E d \in TimeSteps : now + d <= MaxTime /\ now' = now + d

\* lines 135-157: -l given, no file is opened
SetupLive ==
    /\ pc = "setup" /\ live_only
    /\ pc' = "loop"
    /\ UNCHANGED <<live_only, ready, seq, now, dests, dns, di, ir, sample,
                   outbox, row, f, sock, exc, calls, looked, last_iter, completed>>

\* lines 135-157: the log file is opened and the header written
SetupLog ==
    /\ pc = "setup" /\ ~live_only
    /\ f' = "open" /\ pc' = "loop"
    /\ UNCHANGED <<live_only, ready, seq, now, dests, dns, di, ir, sample,
                   outbox, row, sock, exc, calls, looked,
                   last_iter, completed>>

\* line 136: open() raises; f stays None and the finally block runs
SetupLogFails ==
    /\ pc = "setup" /\ ~live_only
    /\ exc' = "OSError" /\ pc' = "shutdown"
    /\ UNCHANGED <<live_only, ready, seq, now, dests, dns, di, ir, sample,
                   outbox, row, f, sock, calls, looked,
                   last_iter, completed>>

\* faulty variant of WaitingIteration: the iteration counts as a tick
WaitingIterationCounts ==
    /\ pc = "loop" /\ ~ready /\ seq < MaxSeq
    /\ seq' = seq + 1
    /\ now' = now
    /\ ready' \in BOOLEAN
    /\ last_iter' = "waiting"
    /\ UNCHANGED <<pc, live_only, dests, dns, di, ir, sample, outbox, row,
                   f, sock, exc, calls, looked, completed>>

\* lines 160-166: the provider is not initialized; sleep, ir.startup(), continue
WaitingIteration ==
    /\ pc = "loop" /\ ~ready
    /\ Sleep
    /\ ready' \in BOOLEAN
    /\ last_iter' = "waiting"
    /\ UNCHANGED <<pc, live_only, seq, dests, dns, di, ir, sample, outbox, row,
                   f, sock, exc, calls, looked, completed>>

\* lines 160-228: the provider is initialized; read and derive, the provider
\* being in one of the states of P; the payload is built from the sample
DeriveFrom(P) ==
    /\ pc = "loop" /\ ready /\ seq < MaxSeq
    /\ \E p \in P :
         /\ ir' = p
         /\ sample' = Derived(p, seq)
         /\ IF Derived(p, seq).ok
            THEN pc' = "dispatch" /\ exc' = exc
            ELSE pc' = "shutdown" /\ exc' = "TypeError"
    /\ di' = 1
    /\ outbox' = [i \in DestIdx |-> Pending]
    /\ row' = NoSample
    /\ looked' = [i \in DestIdx |-> FALSE]
    /\ last_iter' = "running"
    /\ UNCHANGED <<live_only, ready, seq, now, dests, dns, f, sock, calls, completed>>

Derive == DeriveFrom(ProviderStates)

\* d.resolve(interval_s=5.0) for the destination the for loop is at
Resolved == resolve(dests[di], interval_s, now, dns[dests[di].host])

\* the effect of that call on the Dest object
ResolveEffect ==
    /\ dests' = [dests EXCEPT ![di] = Resolved.self]
    /\ looked' = [looked EXCEPT ![di] = Resolved.called]

\* the for loop moves to the next destination, or ends
NextDest ==
    IF di < Len(dests)
    THEN di' = di + 1 /\ pc' = "dispatch"
    ELSE di' = di /\ pc' = "csv"

\* faulty variant of DispatchSkip: break instead of continue
DispatchSkipBreaks ==
    /\ pc = "dispatch"
    /\ resolve(dests[di], interval_s, now, dns[dests[di].host]).ret.none
    /\ dests' = [dests EXCEPT
                   ![di] = resolve(dests[di], interval_s, now,
                                   dns[dests[di].host]).self]
    /\ looked' = [looked EXCEPT ![di] = TRUE]
    /\ outbox' = [outbox EXCEPT ![di] = [st |-> "skipped"]]
    /\ pc' = "csv"
    /\ UNCHANGED <<live_only, ready, seq, now, dns, di, ir, sample, row, f,
                   sock, exc, calls, last_iter, completed>>

\* lines 231-234: resolve() returned None; continue
DispatchSkip ==
    /\ pc = "dispatch"
    /\ Resolved.ret.none
    /\ ResolveEffect
    /\ outbox' = [outbox EXCEPT ![di] = Skipped]
    /\ NextDest
    /\ UNCHANGED <<live_only, ready, seq, now, dns, ir, sample, row, f, sock,
                   exc, calls, last_iter, completed>>

\* lines 231-235: resolve() returned an address; sock.sendto(payload, resolved)
DispatchSend ==
    /\ pc = "dispatch"
    /\ ~Resolved.ret.none
    /\ ResolveEffect
    /\ outbox' = [outbox EXCEPT
                    ![di] = Sent(<<Resolved.ret.ip, Resolved.ret.port>>,
                                 Payload(sample))]
    /\ NextDest
    /\ UNCHANGED <<live_only, ready, seq, now, dns, ir, sample, row, f, sock,
                   exc, calls, last_iter, completed>>

\* faulty variant of DispatchSendFails: the failed send is tried again
DispatchSendRetries ==
    /\ pc = "dispatch"
    /\ ~Resolved.ret.none
    /\ ResolveEffect
    /\ outbox' = [outbox EXCEPT
                    ![di] = Failed(<<Resolved.ret.ip, Resolved.ret.port>>,
                                   Payload(sample))]
    /\ UNCHANGED <<pc, live_only, ready, seq, now, dns, di, ir, sample, row, f,
                   sock, exc, calls, last_iter, completed>>

\* line 235: sock.sendto raises OSError; nothing in the loop catches it
DispatchSendFails ==
    /\ pc = "dispatch"
    /\ ~Resolved.ret.none
    /\ ResolveEffect
    /\ outbox' = [outbox EXCEPT
                    ![di] = Failed(<<Resolved.ret.ip, Resolved.ret.port>>,
                                   Payload(sample))]
    /\ exc' = "OSError" /\ pc' = "shutdown"
    /\ UNCHANGED <<live_only, ready, seq, now, dns, di, ir, sample, row, f,
                   sock, calls, last_iter, completed>>

\* faulty variant of WriteRow: the row is written after seq += 1
WriteRowAfterIncrement ==
    /\ pc = "csv"
    /\ row' = IF f = "open" THEN Row(sample, seq + 1) ELSE row
    /\ pc' = "finish"
    /\ UNCHANGED <<live_only, ready, seq, now, dests, dns, di, ir, sample,
                   outbox, f, sock, exc, calls, looked,
                   last_iter, completed>>

\* faulty variant of WriteRow: the row is never written
WriteRowDropped ==
    /\ pc = "csv"
    /\ pc' = "finish"
    /\ UNCHANGED <<live_only, ready, seq, now, dests, dns, di, ir, sample,
                   outbox, row, f, sock, exc, calls, looked, last_iter,
                   completed>>

\* lines 238-259: writer.writerow when the log is on
WriteRow ==
    /\ pc = "csv"
    /\ row' = IF f = "open" THEN Row(sample, seq) ELSE row
    /\ pc' = "finish"
    /\ UNCHANGED <<live_only, ready, seq, now, dests, dns, di, ir, sample,
                   outbox, f, sock, exc, calls, looked,
                   last_iter, completed>>

\* faulty variant of FinishTick: seq += 1 is missing
FinishTickNoIncrement ==
    /\ pc = "finish"
    /\ completed' = Append(completed, sample.seq)
    /\ now' = now
    /\ pc' = "loop"
    /\ UNCHANGED <<live_only, ready, seq, dests, dns, di, ir, sample, outbox,
                   row, f, sock, exc, calls, looked, last_iter>>

\* lines 261-276: status line, seq += 1, time.sleep(period)
FinishTick ==
    /\ pc = "finish"
    /\ seq' = seq + 1
    /\ completed' = Append(completed, sample.seq)
    /\ Sleep
    /\ pc' = "loop"
    /\ UNCHANGED <<live_only, ready, dests, dns, di, ir, sample, outbox, row,
                   f, sock, exc, calls, looked, last_iter>>

\* Ctrl-C: KeyboardInterrupt is raised at whatever point the try block is at
Interrupt ==
    /\ pc \in LoopPcs
    /\ exc' = "KeyboardInterrupt" /\ pc' = "shutdown"
    /\ UNCHANGED <<live_only, ready, seq, now, dests, dns, di, ir, sample,
                   outbox, row, f, sock, calls, looked,
                   last_iter, completed>>

(* ------------------------ run(): the finally block --------------------- *)

\* faulty variant of ShutdownProvider: no try/except around ir.shutdown(),
\* what it raises leaves the finally block
ShutdownProviderUnguarded ==
    /\ pc = "shutdown"
    /\ calls' = [calls EXCEPT !.shutdown = @ + 1]
    /\ \E raises \in BOOLEAN :
         /\ ready' = IF raises THEN ready ELSE FALSE
         /\ pc' = IF raises THEN "done" ELSE "close_sock"
         /\ exc' = IF raises THEN "Exception" ELSE exc
    /\ UNCHANGED <<live_only, seq, now, dests, dns, di, ir, sample, outbox,
                   row, f, sock, looked, last_iter, completed>>

\* lines 281-284: ir.shutdown(); an Exception it raises is swallowed
ShutdownProvider ==
    /\ pc = "shutdown"
    /\ calls' = [calls EXCEPT !.shutdown = @ + 1]
    /\ \E raises \in BOOLEAN : ready' = IF raises THEN ready ELSE FALSE
    /\ pc' = "close_sock"
    /\ UNCHANGED <<live_only, seq, now, dests, dns, di, ir, sample, outbox,
                   row, f, sock, exc, looked, last_iter, completed>>

\* lines 285-288: sock.close(); an Exception it raises is swallowed
CloseSock ==
    /\ pc = "close_sock"
    /\ calls' = [calls EXCEPT !.sock_close = @ + 1]
    /\ \E raises \in BOOLEAN : sock' = IF raises THEN sock ELSE "closed"
    /\ pc' = "close_file"
    /\ UNCHANGED <<live_only, ready, seq, now, dests, dns, di, ir, sample,
                   outbox, row, f, exc, looked, last_iter, completed>>

\* lines 289-290: f.close() if the file was opened; what it raises propagates
CloseFile ==
    /\ pc = "close_file"
    /\ IF f = None
       THEN UNCHANGED <<calls, f, exc>>
       ELSE /\ calls' = [calls EXCEPT !.f_close = @ + 1]
            /\ \E raises \in BOOLEAN :
                 /\ f' = IF raises THEN f ELSE "closed"
                 /\ exc' = IF raises THEN "OSError" ELSE exc
    /\ pc' = "done"
    /\ UNCHANGED <<live_only, ready, seq, now, dests, dns, di, ir, sample,
                   outbox, row, sock, looked, last_iter, completed>>

(* --------------------------- environment ------------------------------- *)

\* the name-to-address mapping of one host changes while the loop runs
DnsChange ==
    /\ pc \in LoopPcs
    /\ \E m \in DnsStates :
         /\ Cardinality({h \in HostSet : m[h] # dns[h]}) = 1
         /\ dns' = m
    /\ UNCHANGED <<pc, live_only, ready, seq, now, dests, di, ir, sample,
                   outbox, row, f, sock, exc, calls, looked, last_iter, completed>>

\* the simulator goes away: ir.is_initialized turns false
ProviderLost ==
    /\ pc \in LoopPcs /\ ready
    /\ ready' = FALSE
    /\ UNCHANGED <<pc, live_only, seq, now, dests, dns, di, ir, sample, outbox,
                   row, f, sock, exc, calls, looked,
                   last_iter, completed>>

(* ------------------------- specification ------------------------------- *)

LoopStep ==
    \/ SetupLive \/ SetupLog \/ SetupLogFails
    \/ WaitingIteration \/ Derive
    \/ DispatchSkip \/ DispatchSend \/ DispatchSendFails
    \/ WriteRow \/ FinishTick

Teardown == ShutdownProvider \/ CloseSock \/ CloseFile

Next ==
    \/ SetupLive \/ SetupLog \/ SetupLogFails
    \/ WaitingIteration \/ Derive
    \/ DispatchSkip \/ DispatchSend \/ DispatchSendFails
    \/ WriteRow \/ FinishTick
    \/ Interrupt
    \/ ShutdownProvider \/ CloseSock \/ CloseFile
    \/ DnsChange \/ ProviderLost

Spec == Init /\ [][Next]_vars

\* the interpreter keeps executing run(): its next statement is always taken.
\* Nothing obliges the user to interrupt, the mapping to change or the
\* simulator to go away.
LiveSpec == Init /\ [][Next]_vars /\ WF_vars(LoopStep) /\ WF_vars(Teardown)

(* ------------------- the derivation on its own inputs ------------------ *)

\* raw fractions are drawn every 0.005 from -0.02 to MaxFrac * 0.005, and the
\* same readings on the 0..100 scale
MaxFrac == 201
FracStep == One \div 200

FractionKeys == {"Throttle", "Brake", "FuelLevelPct"}

FractionValues ==
    {Num(k * FracStep) : k \in -4..MaxFrac}
        \cup {Num(100 * k * FracStep) : k \in 1..MaxFrac}
        \cup {Raise, List(<<One>>)}

FractionInputs ==
    {[Typical EXCEPT ![k] = v] : k \in FractionKeys, v \in FractionValues}

SessionInputs ==
    {[Typical EXCEPT !["SessionTimeRemain"] = r, !["SessionTimeTotal"] = t,
                     !["SessionTime"] = c] :
        r \in {Raise, List(<<1200000>>), Num(-1000), Num(0), Num(1200000)},
        t \in {Raise, Num(-1000), Num(0), Num(3600000)},
        c \in {Raise, Num(-1000), Num(0), Num(2400000), Num(3600000),
               Num(4000000)}}

\* the player-scoped keys with a fallback, and the per-car array of each
ArrayOf ==
    [Lap |-> "CarIdxLap",
     PlayerCarPosition |-> "CarIdxPosition",
     PlayerCarClassPosition |-> "CarIdxClassPosition",
     LapLastLapTime |-> "CarIdxLastLapTime",
     LapBestLapTime |-> "CarIdxBestLapTime"]

IdxValues == {Raise, Num(-1), Num(0), Num(1), Num(2)}

LapInputs ==
    {[Typical EXCEPT ![k] = v, !["PlayerCarIdx"] = i, ![ArrayOf[k]] = a] :
        k \in {"Lap", "PlayerCarPosition", "PlayerCarClassPosition"},
        v \in {Raise, Num(-1), Num(0), Num(5)},
        i \in IdxValues,
        a \in {Raise, Num(4), List(<<>>), List(<<4>>), List(<<0, 7>>)}}

LapTimeInputs ==
    {[Typical EXCEPT ![k] = v, !["PlayerCarIdx"] = i, ![ArrayOf[k]] = a] :
        k \in {"LapLastLapTime", "LapBestLapTime"},
        v \in {Raise, Num(-1000), Num(0), Num(64000)},
        i \in IdxValues,
        a \in {Raise, Num(66000), List(<<>>), List(<<66000>>),
               List(<<0, 61000>>)}}
    \cup
    {[Typical EXCEPT !["LapCurrentLapTime"] = v, !["PlayerCarIdx"] = i] :
        v \in {Raise, Num(-1000), Num(0), Num(65432)}, i \in IdxValues}

DeriveInputs ==
    FractionInputs \cup SessionInputs \cup LapInputs \cup LapTimeInputs

\* the loop at the top of a Running iteration, nothing sent yet
DeriveInit ==
    /\ pc = "loop"
    /\ live_only = TRUE
    /\ ready = TRUE
    /\ seq = 0
    /\ now = StartTime
    /\ dests = [i \in DestIdx |-> Dest(DestHosts[i], ESP32_PORT)]
    /\ dns = [h \in HostSet |-> None]
    /\ di = 1
    /\ ir = NoProvider
    /\ sample = NoSample
    /\ outbox = [i \in DestIdx |-> Pending]
    /\ row = NoSample
    /\ f = None
    /\ sock = "open"
    /\ exc = None
    /\ calls = [shutdown |-> 0, sock_close |-> 0, f_close |-> 0]
    /\ looked = [i \in DestIdx |-> FALSE]
    /\ last_iter = "none"
    /\ completed = <<>>

ApplyDerive == DeriveFrom(DeriveInputs)

DeriveNext == ApplyDerive

DeriveSpec == DeriveInit /\ [][DeriveNext]_vars

(* ------------------------------ claims --------------------------------- *)

TeardownPcs == {"shutdown", "close_sock", "close_file", "done"}

\* sock.sendto was called for destination i in the current tick
SendtoCalled(i) == outbox[i].st \in {"sent", "failed"}

\* the step is the for loop's body for destination i (resolve, then skip or send)
DispatchStep(i) == pc = "dispatch" /\ di = i /\ outbox'[i] # outbox[i]

\* the tick that derived `sample` has run to its end (seq was incremented)
TickCompleted == sample.ok /\ sample.seq < seq

\* C1: the payloads of the completed ticks carry the sequence numbers
\* 0, 1, 2, ... in this order, one per completed tick, without gap or repeat,
\* and seq is the number of completed ticks.
C1_SeqContiguous ==
    /\ Len(completed) = seq
    /\ \A k \in 1 .. Len(completed) : completed[k] = k - 1

\* two ticks are completed, and the second one sent to no destination
C1_Witness ==
    /\ pc = "loop" /\ completed = <<0, 1>>
    /\ \A i \in DestIdx : outbox[i].st = "skipped"

\* C2: a sock.sendto that raises for one destination is caught: the step
\* that fails leaves no exception behind and the for loop goes on to the next
\* destination or to the CSV row.
C2_SendFailureIgnored ==
    [][\A i \in DestIdx :
          (DispatchStep(i) /\ outbox'[i].st = "failed")
              => (exc' = None /\ pc' \in {"dispatch", "csv"})]_vars

\* C3: in a tick, a destination whose resolve() returned None is skipped
\* (no sendto), a destination whose resolve() returned an address has sendto
\* called with that address and the tick's payload, and a skipped destination
\* does not end the for loop: once dispatch is over without an exception every
\* destination was skipped or sent to, whatever its position.
C3_SkipDoesNotBlock ==
    /\ \A i \in DestIdx :
         /\ outbox[i].st = "skipped" => dests[i].resolved_ip = None
         /\ SendtoCalled(i) =>
              /\ dests[i].resolved_ip # None
              /\ outbox[i].to = <<dests[i].resolved_ip, dests[i].port>>
              /\ outbox[i].payload = Payload(sample)
    /\ pc = "dispatch" => \A i \in DestIdx : i < di => outbox[i].st \in {"skipped", "sent"}
    /\ pc \in {"csv", "finish"} =>
         \A i \in DestIdx : outbox[i].st \in {"skipped", "sent"}

\* the first destination did not resolve and the second was sent the datagram
C3_Witness ==
    /\ pc = "csv"
    /\ outbox[1].st = "skipped"
    /\ outbox[2].st = "sent"

\* C4: a resolve() call on a destination with a cached address whose age is
\* at most the interval calls no gethostbyname, leaves the cache as it is and
\* returns the cached address (the datagram goes there), whatever the host
\* maps to by then; a resolve() call with an older cache calls gethostbyname.
C4_CacheWithinInterval ==
    [][\A i \in DestIdx :
          (DispatchStep(i) /\ dests[i].resolved_ip # None) =>
             IF now - dests[i].last_resolve <= interval_s
             THEN /\ ~looked'[i]
                  /\ dests'[i] = dests[i]
                  /\ outbox'[i].st \in {"sent", "failed"}
                  /\ outbox'[i].to = <<dests[i].resolved_ip, dests[i].port>>
             ELSE /\ looked'[i]
                  /\ dests'[i].last_resolve = now
                  /\ dests'[i].resolved_ip = dns[dests[i].host]]_vars

\* a datagram went to the cached address, without a lookup, at the very end
\* of the interval while the host already maps to another address
C4_Witness ==
    /\ pc = "dispatch" /\ di = 2
    /\ outbox[1].st = "sent" /\ ~looked[1]
    /\ outbox[1].to = <<"10.0.0.60", ESP32_PORT>>
    /\ dns["esp32.local"] = "10.0.0.61"
    /\ now - dests[1].last_resolve = interval_s

\* C5: after a failed resolution (the cache is empty and last_resolve holds
\* the time of the attempt), no resolve() call looks the host up again before
\* the interval has elapsed since that attempt.
C5_NoRetryWithinInterval ==
    [][\A i \in DestIdx :
          (/\ DispatchStep(i)
           /\ dests[i].resolved_ip = None
           /\ dests[i].last_resolve # 0
           /\ now - dests[i].last_resolve <= interval_s)
              => ~looked'[i]]_vars

\* destination i was left out of the last tick for want of an address, its
\* host resolves now, and the loop is about to run a further tick
C6_Resolvable(i) ==
    /\ pc = "loop" /\ ready /\ seq < MaxSeq
    /\ outbox[i].st = "skipped"
    /\ dns[dests[i].host] # None

\* C6: a destination that failed to resolve stays in the destination list:
\* once its host resolves, it is sent a datagram again, unless the host stops
\* resolving, the provider stops being ready or the loop ends first.
C6_EventuallySentAgain ==
    \A i \in DestIdx :
        C6_Resolvable(i) ~>
            (\/ outbox[i].st = "sent"
             \/ dns[dests[i].host] = None
             \/ ~ready
             \/ pc \in TeardownPcs)

\* the second tick resolved the first destination anew, with no time gone by
\* since the first tick (whose attempt had therefore failed), and sent to it
C6_Witness ==
    /\ sample.ok /\ sample.seq = 1
    /\ now = StartTime
    /\ looked[1] /\ outbox[1].st = "sent"

\* a step taken once the finally block has begun
C7_TeardownStep ==
    pc \in TeardownPcs =>
        /\ outbox' = outbox /\ row' = row /\ seq' = seq
        /\ pc' \in TeardownPcs

\* C7: whatever ends the loop, ir.shutdown() and sock.close() are each called
\* exactly once, f.close() exactly once if the file was opened and never
\* otherwise, also when an earlier teardown call raised; and once the finally
\* block has begun nothing is sent, no row is written and seq stays.
C7_TeardownOnce ==
    /\ [](/\ calls.shutdown <= 1 /\ calls.sock_close <= 1 /\ calls.f_close <= 1
          /\ pc \in LoopPcs =>
               calls = [shutdown |-> 0, sock_close |-> 0, f_close |-> 0]
          /\ pc = "done" =>
               /\ calls.shutdown = 1
               /\ calls.sock_close = 1
               /\ calls.f_close = (IF f = None THEN 0 ELSE 1))
    /\ [][C7_TeardownStep]_vars

\* the loop was interrupted with the log open; ir.shutdown() and sock.close()
\* both raised, and all three teardown calls were made nevertheless
C7_Witness ==
    /\ pc = "done" /\ exc = "KeyboardInterrupt"
    /\ ready /\ sock = "open" /\ f = "closed"
    /\ calls = [shutdown |-> 1, sock_close |-> 1, f_close |-> 1]

\* a tick is under way: its sample is derived, seq is not yet incremented
TickInProgress == sample.ok /\ sample.seq = seq

\* C8 as stated: KeyboardInterrupt is only ever raised between ticks, so the
\* loop is never left by it with a tick under way.
C8_InterruptBetweenTicks ==
    exc = "KeyboardInterrupt" => ~TickInProgress

\* C8 as amended: KeyboardInterrupt can end a tick at any of its steps; the
\* tick it cuts short is not counted (seq keeps the number in its payload, no
\* further send, row or increment follows), and every tick that was counted
\* had each destination skipped or sent to and, with the log on, its row
\* written.
C8_OnlyWholeTicksCount ==
    /\ TickCompleted =>
         /\ \A i \in DestIdx : outbox[i].st \in {"skipped", "sent"}
         /\ f # None => row = Row(sample, sample.seq)
    /\ (pc \in TeardownPcs /\ \E i \in DestIdx : outbox[i].st \in {"pending", "failed"})
         => (TickInProgress \/ ~sample.ok) /\ ~row.ok

\* the interrupt came in the middle of the second tick's dispatch: the first
\* destination was sent the datagram, the second was not, no row was written
C8_Witness ==
    /\ pc = "done" /\ exc = "KeyboardInterrupt"
    /\ sample.ok /\ sample.seq = 1 /\ seq = 1
    /\ outbox[1].st = "sent" /\ outbox[2].st = "pending"
    /\ f = "closed" /\ ~row.ok

\* what a step may do, seen from the top of the loop
C9_IterationStep ==
    /\ (pc = "loop" /\ ~ready) =>
         /\ seq' = seq /\ outbox' = outbox /\ row' = row
         /\ completed' = completed /\ sample' = sample
         /\ pc' \in {"loop", "shutdown"}
         /\ last_iter' \in {last_iter, "waiting"}
    /\ (~ready /\ ready') => (pc = "loop" /\ last_iter' = "waiting")
    /\ (pc = "loop" /\ ready /\ last_iter' # last_iter) => last_iter' = "running"
    /\ (pc = "loop" /\ pc' = "dispatch") =>
         /\ ready /\ last_iter' = "running"
         /\ seq' = seq /\ sample'.seq = seq /\ Len(completed) = seq

\* C9: from the top of the loop with the provider not ready, no step sends,
\* writes a row, changes seq or starts a tick, and the iteration taken is a
\* waiting one, the only step that can make the provider ready (ir.startup());
\* with the provider ready the iteration taken is a running tick, and a tick
\* starts only then, with the payload carrying seq as the last tick left it.
C9_WaitingIsIdle == [][C9_IterationStep]_vars

\* after one completed tick the provider was lost, a waiting iteration ran and
\* its ir.startup() made the provider ready again; seq is still 1
C9_Witness ==
    /\ pc = "loop" /\ ready /\ last_iter = "waiting"
    /\ seq = 1 /\ TickCompleted /\ sample.seq = 0

\* the read of `key` raised in the tick that derived the sample
LookupFailed(key) == ir[key].t = "raise"

\* C10: no lookup failure ends the loop (no conversion of a reader's result
\* ever raises), and the tick goes on with the default: 0 for a scalar key
\* that raises, the player-scoped value for an indexed read that raises or
\* whose index is out of range.
C10_LookupFailureNotFatal ==
    /\ exc # "TypeError"
    /\ last_iter = "running" => sample.ok
    /\ sample.ok =>
         /\ LookupFailed("RPM") => sample.rpm = 0
         /\ (LookupFailed("Lap") /\ LookupFailed("CarIdxLap")) => sample.lap = 0
         /\ (/\ LookupFailed("Lap")
             /\ ~LookupFailed("PlayerCarIdx") /\ ~LookupFailed("CarIdxLap")
             /\ ir["PlayerCarIdx"].n >= Len(ir["CarIdxLap"].s)) => sample.lap = 0
         /\ (/\ LookupFailed("Lap") /\ LookupFailed("PlayerCarIdx")
             /\ ~LookupFailed("CarIdxLap")) => sample.lap = ir["CarIdxLap"].s[1]

\* a tick in which every read raised was completed: its payload of defaults
\* was sent and seq incremented
C10_Witness ==
    /\ pc = "loop" /\ TickCompleted /\ seq = 1
    /\ \A k \in Keys : LookupFailed(k)
    /\ sample.rpm = 0 /\ sample.lap = 0
    /\ outbox[1].st = "sent"

(* ----------------------- claims on the derivation ---------------------- *)

\* the value a player-scoped key is read as: its number, or the default 0
\* when the provider does not have it
Scalar(key) == IF ir[key].t = "num" THEN ir[key].n ELSE 0

PlayerIdx == Scalar("PlayerCarIdx")

HasEntry(key, i) ==
    ir[key].t = "list" /\ 0 <= i /\ i < Len(ir[key].s)

Entry(key, i) == ir[key].s[i + 1]

\* the field of the sample that each player-scoped key ends up in
FieldOf ==
    [Lap |-> "lap",
     PlayerCarPosition |-> "pos",
     PlayerCarClassPosition |-> "class_pos",
     LapCurrentLapTime |-> "lap_cur",
     LapLastLapTime |-> "lap_last",
     LapBestLapTime |-> "lap_best"]

UnitInterval == 0..One

\* C11: in every sample a tick produces, throttle, brake and the fuel
\* fraction lie in [0,1], whatever raw value the provider returned.
\* The code clamps only the fuel fraction, so this is violated.
C11_BoundedFieldsClamped ==
    sample.ok =>
        /\ sample.throttle \in UnitInterval
        /\ sample.brake \in UnitInterval
        /\ sample.fuel_pct \in UnitInterval

\* C12 as stated: for every raw fraction x in (0, 1], normalising x * 100
\* gives what normalising x gives, and the result is in [0,1].
C12_ScaleInvariant ==
    sample.ok =>
        /\ sample.fuel_pct \in UnitInterval
        /\ LET x == ir["FuelLevelPct"]
           IN  (x.t = "num" /\ 0 < x.n /\ x.n <= One) =>
                   norm_pct(Num(100 * x.n)) = sample.fuel_pct

\* C12 amended: the normalised fuel fraction is in [0,1] for every raw
\* value, and normalising x * 100 gives what normalising x gives for every
\* raw fraction x in (0.015, 1], i.e. whenever x * 100 is above the 1.5
\* threshold of the 0..100 scale.
C12_ScaleInvariantAboveThreshold ==
    sample.ok =>
        /\ sample.fuel_pct \in UnitInterval
        /\ LET x == ir["FuelLevelPct"]
           IN  (x.t = "num" /\ 2 * 100 * x.n > 3 * One /\ x.n <= One) =>
                   /\ norm_pct(Num(100 * x.n)) = sample.fuel_pct
                   /\ sample.fuel_pct = x.n

\* the raw fraction 0.55 has been normalised, and 55 normalises to the same
C12_Witness ==
    /\ sample.ok
    /\ ir["FuelLevelPct"] = Num(55 * (One \div 100))
    /\ sample.fuel_pct = 55 * (One \div 100)
    /\ norm_pct(Num(55 * One)) = sample.fuel_pct

\* C13: session time remaining is the direct field when that is present and
\* > 0; otherwise max(0, total - current) when total > 0 and current >= 0;
\* otherwise 0; and so it is never negative.
C13_SessionRemain ==
    sample.ok =>
        LET direct == ir["SessionTimeRemain"]
            total == Scalar("SessionTimeTotal")
            current == Scalar("SessionTime")
        IN  /\ sample.session_remain_s >= 0
            /\ sample.session_remain_s =
                   IF direct.t = "num" /\ direct.n > 0
                   THEN direct.n
                   ELSE IF total > 0 /\ current >= 0
                        THEN IF total - current > 0 THEN total - current ELSE 0
                        ELSE 0

\* no direct field, and the session has run past its total: 0 remains
C13_Witness ==
    /\ sample.ok
    /\ ir["SessionTimeRemain"] = Raise
    /\ Scalar("SessionTimeTotal") > 0
    /\ Scalar("SessionTime") > Scalar("SessionTimeTotal")
    /\ sample.session_remain_s = 0

\* C14: for lap, position and class position: a player-scoped 0 with a car
\* index >= 0 and a non-zero entry of the per-car array at that index gives
\* the array's entry; a non-zero player-scoped value is kept and the per-car
\* array is not read.
C14_LapPositionFallback ==
    sample.ok =>
        \A k \in {"Lap", "PlayerCarPosition", "PlayerCarClassPosition"} :
            /\ (/\ Scalar(k) = 0
                /\ PlayerIdx >= 0
                /\ HasEntry(ArrayOf[k], PlayerIdx)
                /\ Entry(ArrayOf[k], PlayerIdx) # 0)
               => sample[FieldOf[k]] = Entry(ArrayOf[k], PlayerIdx)
            /\ Scalar(k) # 0
               => /\ ArrayOf[k] \notin sample.reads
                  /\ sample[FieldOf[k]] = Scalar(k)

\* PlayerCarPosition 0 and CarIdxPosition[1] = 7: the position derived is 7
C14_Witness ==
    /\ sample.ok
    /\ ir["PlayerCarPosition"] = Num(0)
    /\ PlayerIdx = 1
    /\ ir["CarIdxPosition"] = List(<<0, 7>>)
    /\ "CarIdxPosition" \in sample.reads
    /\ sample.pos = 7

\* the per-car arrays the code names for a lap time: none for the current one
LapTimeArrays(k) == IF k \in DOMAIN ArrayOf THEN {ArrayOf[k]} ELSE {}

\* C15 as stated: for each of the current, last and best lap time, a
\* player-scoped value <= 0 with a car index >= 0 makes the derived lap time
\* come from the per-car array at the player's index, and a value > 0 is
\* kept without the array being consulted.
C15_AllLapTimesFallBack ==
    sample.ok =>
        \A k \in {"LapCurrentLapTime", "LapLastLapTime", "LapBestLapTime"} :
            /\ (Scalar(k) <= 0 /\ PlayerIdx >= 0)
               => \E a \in LapTimeArrays(k) :
                      /\ a \in sample.reads
                      /\ HasEntry(a, PlayerIdx)
                             => sample[FieldOf[k]] = Entry(a, PlayerIdx)
            /\ Scalar(k) > 0
               => /\ \A a \in LapTimeArrays(k) : a \notin sample.reads
                  /\ sample[FieldOf[k]] = Scalar(k)

\* C15 amended: the fallback applies to the last and the best lap time: a
\* player-scoped value <= 0 with a car index >= 0 makes the code read the
\* per-car array and take its entry at the player's index when it has one
\* (the player-scoped value is kept when it has none); a value > 0, or a
\* negative car index, leaves the array unread and the value kept. The
\* current lap time is always the player-scoped value.
C15_LastAndBestFallBack ==
    sample.ok =>
        /\ sample.lap_cur = Scalar("LapCurrentLapTime")
        /\ \A k \in {"LapLastLapTime", "LapBestLapTime"} :
               IF Scalar(k) <= 0 /\ PlayerIdx >= 0
               THEN /\ ArrayOf[k] \in sample.reads
                    /\ sample[FieldOf[k]] =
                           IF HasEntry(ArrayOf[k], PlayerIdx)
                           THEN Entry(ArrayOf[k], PlayerIdx)
                           ELSE Scalar(k)
               ELSE /\ ArrayOf[k] \notin sample.reads
                    /\ sample[FieldOf[k]] = Scalar(k)

\* LapLastLapTime 0.0 and CarIdxLastLapTime[1] = 61.0: lap_last is 61.0
C15_Witness ==
    /\ sample.ok
    /\ ir["LapLastLapTime"] = Num(0)
    /\ PlayerIdx = 1
    /\ ir["CarIdxLastLapTime"] = List(<<0, 61000>>)
    /\ sample.lap_last = 61000

(* ------------------------- claims on the dispatch ---------------------- *)

\* C16, within a tick: the for loop handles a destination once, when nothing
\* has been done for it yet in this tick; sendto is called for it (once) when
\* its resolve() call returned an address and not at all when it returned
\* None; and the datagram carries the current seq, which no completed tick
\* had.
C16_DispatchStep ==
    \A i \in DestIdx :
        DispatchStep(i) =>
            /\ outbox[i] = Pending
            /\ IF Resolved.ret.none
               THEN outbox'[i] = Skipped
               ELSE /\ outbox'[i].st \in {"sent", "failed"}
                    /\ outbox'[i].payload.seq = seq
                    /\ \A k \in 1 .. Len(completed) : completed[k] < seq

\* C16, at the end of a tick's dispatch: every destination has been handled
C16_AllHandled ==
    pc \in {"csv", "finish"} => \A i \in DestIdx : outbox[i] # Pending

\* C16: delivery is at-most-once per destination per tick: one sendto call
\* for a destination whose resolve() returned an address, none otherwise, and
\* no datagram with the sequence number of an earlier tick is sent again.
C16_AtMostOnce == []C16_AllHandled /\ [][C16_DispatchStep]_vars

\* the second tick has sent its datagram (seq 1) to the first destination,
\* which got the first tick's datagram too, and has skipped the second one
C16_Witness ==
    /\ pc = "csv"
    /\ completed = <<0>>
    /\ outbox[1].st = "sent" /\ outbox[1].payload.seq = 1
    /\ outbox[2].st = "skipped"

\* the last decimal kept by the datagram is within half a unit of the value
Printed(v, x, step) == 2 * (v - x) <= step /\ 2 * (x - v) <= step

\* the datagram d carries the values of the row r
SameValues(d, r) ==
    /\ d.seq = r.seq /\ d.rpm = r.rpm /\ d.gear = r.gear
    /\ Printed(d.thr, r.throttle, One \div 1000)
    /\ Printed(d.brk, r.brake, One \div 1000)
    /\ Printed(d.session_remain_s, r.session_remain_s, 10)
    /\ d.fuel_l = r.fuel_l /\ d.incidents = r.incidents
    /\ Printed(d.speed_kmh, r.speed_kmh, 100)
    /\ d.lap = r.lap /\ d.pos = r.pos /\ d.class_pos = r.class_pos
    /\ d.lap_cur = r.lap_cur /\ d.lap_last = r.lap_last
    /\ d.lap_best = r.lap_best

\* C17, the order: a tick starts from the top of the loop with the provider
\* ready and derives before anything is sent; the row is written after the
\* last destination has been handled and before seq is incremented; the
\* increment and the sleep end the tick.
C17_TickStep ==
    /\ pc' # pc =>
         /\ pc' = "dispatch" => pc = "loop"
         /\ pc' = "csv" => pc = "dispatch"
         /\ pc' = "finish" => pc = "csv"
         /\ pc' = "loop" => pc \in {"setup", "finish"}
    /\ sample' # sample => pc = "loop" /\ ready
    /\ (pc = "loop" /\ pc' = "dispatch") =>
         /\ sample'.ok /\ sample'.seq = seq /\ seq' = seq
         /\ \A i \in DestIdx : outbox'[i] = Pending
         /\ ~row'.ok
    /\ outbox' # outbox => pc = "loop" \/ (pc = "dispatch" /\ ~row.ok)
    /\ pc' = "csv" => \A i \in DestIdx : outbox'[i] # Pending
    /\ row' # row => pc = "loop" \/ (pc = "csv" /\ seq' = seq)
    /\ seq' # seq =>
         /\ pc = "finish" /\ pc' = "loop"
         /\ seq' = seq + 1 /\ now' >= now
         /\ f = "open" => row.ok

\* C17, the result: the datagrams of a tick are equal to one another, and
\* the row of the tick has their sequence number and their values.
C17_OnePayload ==
    sample.ok =>
        \A i \in DestIdx :
            SendtoCalled(i) =>
                /\ \A j \in DestIdx :
                       SendtoCalled(j) => outbox[j].payload = outbox[i].payload
                /\ row.ok => SameValues(outbox[i].payload, row)

\* C17: a Running tick does readiness check, derivation, dispatch, CSV row,
\* sequence increment and sleep in this order, so that its datagrams are
\* identical and its CSV row carries their sequence number and values.
C17_TickOrder == []C17_OnePayload /\ [][C17_TickStep]_vars

\* the second tick sent its datagram to both destinations and wrote its row
C17_Witness ==
    /\ pc = "finish"
    /\ row.ok /\ row.seq = 1
    /\ outbox[1].st = "sent" /\ outbox[2].st = "sent"
    /\ outbox[1].payload.seq = 1

(* ------------------------- claims on Dest.resolve ---------------------- *)

\* C18, one resolve() call (the one of the dispatch step for destination i)
C18_ResolveStep ==
    \A i \in DestIdx :
        DispatchStep(i) =>
            /\ looked'[i] =>
                 IF dns[dests[i].host] = None
                 THEN /\ dests'[i].resolved_ip = None
                      /\ outbox'[i] = Skipped
                 ELSE /\ dests'[i].resolved_ip = dns[dests[i].host]
                      /\ outbox'[i].st \in {"sent", "failed"}
                      /\ outbox'[i].to = <<dns[dests[i].host], dests[i].port>>
            /\ outbox'[i] = Skipped <=> dests'[i].resolved_ip = None
            /\ outbox'[i] = Skipped => exc' = exc /\ pc' \in {"dispatch", "csv"}
            /\ exc' # exc => outbox'[i].st = "failed"

\* C18: resolve() never raises; a fresh resolution that fails clears the
\* cache and the call returns None (the destination is skipped), whatever
\* the cache held; one that succeeds puts the new address in the cache and
\* the call returns (that address, the port); and the call returns None
\* exactly when the cache is empty after it.
C18_ResolveNeverRaises == [][C18_ResolveStep]_vars

\* in the second tick the first destination's host was looked up, the lookup
\* failed, the cache is empty and the destination was skipped; the loop went
\* on to the second destination
C18_Witness ==
    /\ pc = "dispatch" /\ di = 2 /\ exc = None
    /\ completed = <<0>>
    /\ looked[1] /\ dns[dests[1].host] = None
    /\ dests[1].resolved_ip = None /\ dests[1].last_resolve = now
    /\ outbox[1] = Skipped

\* C19, the cache: it changes only in a resolve() call that looks the host
\* up, and then holds the answer of that lookup and its time
C19_CacheIsLastLookup ==
    \A i \in DestIdx :
        dests'[i] # dests[i] =>
            /\ pc = "dispatch" /\ di = i /\ looked'[i]
            /\ dests'[i].resolved_ip = dns[dests[i].host]
            /\ dests'[i].last_resolve = now
            /\ dests'[i].host = dests[i].host

\* C19, the send: sendto gets the cached address, and the cache is not empty
\* and not older than the interval
C19_SendStep ==
    \A i \in DestIdx :
        (DispatchStep(i) /\ outbox'[i].st \in {"sent", "failed"}) =>
            /\ dests'[i].resolved_ip # None
            /\ outbox'[i].to = <<dests'[i].resolved_ip, dests'[i].port>>
            /\ now - dests'[i].last_resolve >= 0
            /\ now - dests'[i].last_resolve <= interval_s

\* C19: every datagram goes to an address that a successful resolution of
\* the destination's host gave at most interval_s (5 s) before the send.
C19_FreshAddress == [][C19_CacheIsLastLookup /\ C19_SendStep]_vars

\* a datagram of the second tick went to the address resolved in the first
\* tick, five seconds old, the host mapping to another address by now
C19_Witness ==
    /\ pc = "csv"
    /\ completed = <<0>>
    /\ outbox[1].st = "sent" /\ ~looked[1]
    /\ outbox[1].to = <<dests[1].resolved_ip, ESP32_PORT>>
    /\ now - dests[1].last_resolve = interval_s
    /\ dns["esp32.local"] # dests[1].resolved_ip

====
